---- MODULE Spec2Model ----
(***************************************************************************)
(* Verification model of the memory allocation engine                      *)
(* (src/memory_allocation_engine.py) and of the GUI callers that drive it  *)
(* (src/gui.py).                                                           *)
(*                                                                         *)
(* Python values are represented as follows:                               *)
(*   - a dict is a record, a list is a sequence;                           *)
(*   - None in a 'process_id' field is the number NoProcess (0); process   *)
(*     ids handed to the engine are the positive numbers 1..MaxPid;        *)
(*   - a float computed by true division is the exact fraction             *)
(*     [num, den] in lowest terms (rounding is not modelled);              *)
(*   - an f-string is the record of its template and its arguments;        *)
(*   - the 'timestamp' of an event (time.time()) is not part of the model. *)
(***************************************************************************)
EXTENDS Integers, Sequences, FiniteSets, TLC

\* ------------------------------------------------------------------ bounds
NumFrames == 3      \* the manager is built with NumFrames * PageSize addresses
PageSize == 2       \* and pages of PageSize addresses
MaxPid == 2         \* process ids are 1..MaxPid
MaxEvents == 3      \* calls are explored while the log holds at most this many events
MaxDeepEvents == 4    \* calls of SpecDeep, as MaxEvents
MaxNewEvents == 2     \* calls on a manager built from any arguments, as MaxEvents
MaxThreadEvents == 2  \* the GUI starts calls while the log holds fewer events than this

NoProcess == 0      \* None, as a frame's or block's owner

MaxRecentEvents == 10   \* the log keeps this many events
ShownEvents == 5        \* get_recent_events returns this many

Methods == {"paging", "segmentation"}

VARIABLES
    memory_size,          \* MemoryManager.memory_size
    page_size,            \* MemoryManager.page_size
    memory,               \* MemoryManager.memory: list of blocks
    page_table,           \* MemoryManager.page_table: list of frames
    allocated_processes,  \* MemoryManager.allocated_processes: pid -> info
    recent_events,        \* MemoryManager.recent_events
    stats,                \* MemoryManager.stats
    call,                 \* the last call that returned, and what it returned
    simulation_running,   \* MemoryVisualizerGUI.simulation_running
    allocated_process_ids,\* MemoryVisualizerGUI.allocated_process_ids
    timers,               \* process ids with a started threading.Timer
    pending_processes,    \* MemoryVisualizerGUI.pending_processes
    next_pid,             \* ProcessGenerator.next_pid
    stale_timers,         \* timers started before the last reset
    pc,                   \* where each thread is inside deallocate_process
    local,                \* each thread's local variables there
    outcome,              \* how each thread's last deallocate_process ended
    raced,                \* whether that call overlapped one for the same pid
    seen                  \* what the last _update_visualization read

engine == <<memory, page_table, allocated_processes, stats>>
config == <<memory_size, page_size>>
session == <<pending_processes, next_pid, stale_timers>>
gui == <<simulation_running, allocated_process_ids, timers,
         pending_processes, next_pid, stale_timers>>
threads == <<pc, local, outcome, raced, seen>>
vars == <<memory_size, page_size, memory, page_table, allocated_processes,
          recent_events, stats, call, simulation_running,
          allocated_process_ids, timers, pending_processes, next_pid,
          stale_timers, pc, local, outcome, raced, seen>>

\* the Tk main thread and the thread of a threading.Timer
Threads == {"main", "timer"}

\* --------------------------------------------------------- Python helpers
Min(a, b) == IF a < b THEN a ELSE b
Max(a, b) == IF a > b THEN a ELSE b

RECURSIVE GCD(_, _)
GCD(a, b) == IF b = 0 THEN a ELSE GCD(b, a % b)

\* a / b for a >= 0, b > 0, as a fraction in lowest terms
Fraction(a, b) == LET g == GCD(a, b) IN [num |-> a \div g, den |-> b \div g]

\* the int 0 that takes the place of a quotient never computed
Zero == [num |-> 0, den |-> 1]

\* s[:n]: the first n elements, or all but the last -n when n < 0
Prefix(s, n) ==
    LET k == IF n >= 0 THEN Min(n, Len(s)) ELSE Max(Len(s) + n, 0)
    IN  SubSeq(s, 1, k)

\* s[-n:]: the last n elements (n > 0)
Suffix(s, n) == SubSeq(s, Max(Len(s) - n, 0) + 1, Len(s))

Last(s) == s[Len(s)]

RECURSIVE SumSeq(_)
SumSeq(s) == IF s = <<>> THEN 0 ELSE Head(s) + SumSeq(Tail(s))

RECURSIVE MaxSeq(_, _)
MaxSeq(s, default) ==
    IF s = <<>> THEN default
    ELSE LET m == MaxSeq(Tail(s), Head(s)) IN Max(Head(s), m)

\* ------------------------------------------------------------ constructor
InitMemory(ms) ==
    << [start |-> 0, end |-> ms - 1, size |-> ms, process_id |-> NoProcess] >>

InitPageTable(ms, ps) ==
    [k \in 1..(ms \div ps) |->
        [frame_id |-> k - 1, process_id |-> NoProcess,
         start_address |-> (k - 1) * ps, end_address |-> k * ps - 1]]

InitStats(ms) ==
    [total_memory |-> ms, used_memory |-> 0, free_memory |-> ms,
     used_percentage |-> Zero, process_count |-> 0, page_faults |-> 0,
     external_fragmentation |-> Zero, internal_fragmentation |-> 0]

\* the record of a call that returned
Returned(op, process_id, size, method, ret) ==
    [op |-> op, process_id |-> process_id, size |-> size, method |-> method,
     ret |-> ret]

NoCall == Returned("none", NoProcess, 0, "none", FALSE)

NoBlock == [start |-> 0, end |-> 0, size |-> 0, process_id |-> NoProcess]
NoInfo == [size |-> 0, method |-> "none"]

\* a thread's locals outside deallocate_process
NoLocal == [process_id |-> NoProcess, process_info |-> NoInfo, k |-> 0,
            current_block |-> NoBlock, has_current |-> FALSE,
            present |-> FALSE]

\* get_recent_events: recent_events[-5:] if recent_events else []
get_recent_events(events) ==
    IF events = <<>> THEN <<>> ELSE Suffix(events, ShownEvents)

\* the four reads of _update_visualization, as the values read
Snapshot(mem, pt, st, events) ==
    [memory |-> mem, page_table |-> pt, stats |-> st,
     events |-> get_recent_events(events)]

InitEngine ==
    /\ page_size = PageSize
    /\ memory_size = NumFrames * PageSize
    /\ memory = InitMemory(memory_size)
    /\ page_table = InitPageTable(memory_size, page_size)
    /\ allocated_processes = <<>>
    /\ recent_events = <<>>
    /\ stats = InitStats(memory_size)
    /\ call = NoCall

InitGui ==
    /\ allocated_process_ids = {}
    /\ timers = {}
    /\ pending_processes = <<>>
    /\ next_pid = 1
    /\ stale_timers = {}
    /\ pc = [t \in Threads |-> "idle"]
    /\ local = [t \in Threads |-> NoLocal]
    /\ outcome = [t \in Threads |-> "none"]
    /\ raced = [t \in Threads |-> FALSE]
    /\ seen = Snapshot(memory, page_table, stats, recent_events)

\* the state after MemoryVisualizerGUI.__init__
Init ==
    /\ InitEngine
    /\ InitGui
    /\ simulation_running = FALSE

\* ------------------------------------------------- engine: derived views
\* _update_memory_from_page_table, the loop from frame k on.  The page table
\* is built in frame_id order and never reordered, so sorted() returns it as
\* it is.  has_current is "current_block is not None".
RECURSIVE rebuild_blocks(_, _, _, _, _)
rebuild_blocks(pt, k, mem, current_block, has_current) ==
    IF k > Len(pt)
    THEN IF has_current THEN Append(mem, current_block) ELSE mem
    ELSE LET frame == pt[k]
             start_addr == frame.start_address
             end_addr == frame.end_address
             process_id == frame.process_id
         IN  IF ~has_current \/ current_block.process_id # process_id
             THEN rebuild_blocks(pt, k + 1,
                      IF has_current THEN Append(mem, current_block) ELSE mem,
                      [start |-> start_addr, end |-> end_addr,
                       size |-> end_addr - start_addr + 1,
                       process_id |-> process_id],
                      TRUE)
             ELSE rebuild_blocks(pt, k + 1, mem,
                      [current_block EXCEPT
                          !.end = end_addr,
                          !.size = end_addr - current_block.start + 1],
                      TRUE)

update_memory_from_page_table(pt) ==
    rebuild_blocks(pt, 1, <<>>,
        [start |-> 0, end |-> 0, size |-> 0, process_id |-> NoProcess], FALSE)

\* list.pop(i) and list.insert(i, x) with 1-based positions
RemoveAt(s, j) == SubSeq(s, 1, j - 1) \o SubSeq(s, j + 1, Len(s))
\* an insert that puts x one position too early
InsertAt_one_early(s, j, x) == SubSeq(s, 1, j - 2) \o <<x>> \o SubSeq(s, j - 1, Len(s))
InsertAt(s, j, x) == SubSeq(s, 1, j - 1) \o <<x>> \o SubSeq(s, j, Len(s))

\* the merge loop advancing past a block it has just merged into
RECURSIVE merge_from_advances_after_merge(_, _)
merge_from_advances_after_merge(mem, i) ==
    IF i < Len(mem) - 1
    THEN IF mem[i + 1].process_id = NoProcess /\ mem[i + 2].process_id = NoProcess
         THEN merge_from_advances_after_merge(
                  RemoveAt([mem EXCEPT ![i + 1].end = mem[i + 2].end,
                                       ![i + 1].size = @ + mem[i + 2].size],
                           i + 2),
                  i + 1)
         ELSE merge_from_advances_after_merge(mem, i + 1)
    ELSE mem

\* _merge_free_blocks, the while loop from index i on (i is 0-based)
RECURSIVE merge_from(_, _)
merge_from(mem, i) ==
    IF i < Len(mem) - 1
    THEN IF mem[i + 1].process_id = NoProcess /\ mem[i + 2].process_id = NoProcess
         THEN merge_from(
                  RemoveAt([mem EXCEPT ![i + 1].end = mem[i + 2].end,
                                       ![i + 1].size = @ + mem[i + 2].size],
                           i + 2),
                  i)
         ELSE merge_from(mem, i + 1)
    ELSE mem

merge_free_blocks(mem) == merge_from(mem, 0)

IsOwned(block) == block.process_id # NoProcess
IsFree(block) == block.process_id = NoProcess
Sizes(blocks) == [k \in 1..Len(blocks) |-> blocks[k].size]

\* the loop of _update_stats over allocated_processes.items()
RECURSIVE internal_fragmentation_of(_, _, _)
internal_fragmentation_of(procs, pids, ps) ==
    IF pids = {} THEN 0
    ELSE LET process_id == CHOOSE p \in pids : TRUE
             info == procs[process_id]
             rest == internal_fragmentation_of(procs, pids \ {process_id}, ps)
         IN  IF info.method = "paging"
             THEN (Len(info.frames) * ps - info.size) + rest
             ELSE rest

\* _update_stats that counts the registry when it is one entry behind
update_stats_stale_count(mem, procs, ms, ps) ==
    LET used_memory == SumSeq(Sizes(SelectSeq(mem, IsOwned)))
        free_memory == ms - used_memory
        free_blocks == SelectSeq(mem, IsFree)
        largest_free_block == MaxSeq(Sizes(free_blocks), 0)
        external_fragmentation ==
            IF free_memory > 0
            THEN Fraction(free_memory - largest_free_block, free_memory)
            ELSE Zero
        internal_fragmentation ==
            internal_fragmentation_of(procs, DOMAIN procs, ps)
    IN  [total_memory |-> ms,
         used_memory |-> used_memory,
         free_memory |-> free_memory,
         used_percentage |->
             IF ms > 0 THEN Fraction(used_memory * 100, ms) ELSE Zero,
         process_count |-> Max(Cardinality(DOMAIN procs) - 1, 0),
         page_faults |-> 0,
         external_fragmentation |-> external_fragmentation,
         internal_fragmentation |-> internal_fragmentation]

update_stats(mem, procs, ms, ps) ==
    LET used_memory == SumSeq(Sizes(SelectSeq(mem, IsOwned)))
        free_memory == ms - used_memory
        free_blocks == SelectSeq(mem, IsFree)
        largest_free_block == MaxSeq(Sizes(free_blocks), 0)
        external_fragmentation ==
            IF free_memory > 0
            THEN Fraction(free_memory - largest_free_block, free_memory)
            ELSE Zero
        internal_fragmentation ==
            internal_fragmentation_of(procs, DOMAIN procs, ps)
    IN  [total_memory |-> ms,
         used_memory |-> used_memory,
         free_memory |-> free_memory,
         used_percentage |->
             IF ms > 0 THEN Fraction(used_memory * 100, ms) ELSE Zero,
         process_count |-> Cardinality(DOMAIN procs),
         page_faults |-> 0,
         external_fragmentation |-> external_fragmentation,
         internal_fragmentation |-> internal_fragmentation]

\* ----------------------------------------------------------- event log
Event(process_id, event_type, details) ==
    [process_id |-> process_id, event_type |-> event_type, details |-> details]

Details(text, a, b) == [text |-> text, a |-> a, b |-> b]

\* _log_event that evicts the newest event when the log is full
log_event_evicts_newest(events, process_id, event_type, details) ==
    LET appended == Append(events, Event(process_id, event_type, details))
    IN  IF Len(appended) > MaxRecentEvents
        THEN SubSeq(appended, 1, MaxRecentEvents)
        ELSE appended

log_event(events, process_id, event_type, details) ==
    LET appended == Append(events, Event(process_id, event_type, details))
    IN  IF Len(appended) > MaxRecentEvents THEN Tail(appended) ELSE appended

\* dict[key] = value, and del dict[key]
Put(d, key, value) ==
    [x \in DOMAIN d \cup {key} |-> IF x = key THEN value ELSE d[x]]
Del(d, key) == [x \in DOMAIN d \ {key} |-> d[x]]

\* the engine's state together with a call's return value
Outcome(mem, pt, procs, st, events, ret) ==
    [memory |-> mem, page_table |-> pt, allocated_processes |-> procs,
     stats |-> st, recent_events |-> events, ret |-> ret]

\* ------------------------------------------------------ engine: commands
FrameIds(frames) == {frames[k].frame_id : k \in 1..Len(frames)}

\* for frame in page_table: if start_page <= frame_id <= end_page: owner = pid
MarkRange(pt, start_page, end_page, process_id) ==
    [k \in 1..Len(pt) |->
        IF start_page <= pt[k].frame_id /\ pt[k].frame_id <= end_page
        THEN [pt[k] EXCEPT !.process_id = process_id]
        ELSE pt[k]]

\* for frame_id in ids: the frame with that frame_id gets owner pid
MarkFrames(pt, ids, process_id) ==
    [k \in 1..Len(pt) |->
        IF pt[k].frame_id \in ids
        THEN [pt[k] EXCEPT !.process_id = process_id]
        ELSE pt[k]]

\* pages_needed rounded down instead of up
PagesNeeded_rounds_down(size, ps) == size \div ps

PagesNeeded(size, ps) == (size + ps - 1) \div ps

FreeFrames(pt) == SelectSeq(pt, IsFree)

\* a paging allocation that claims the free frames before it counts them
allocate_process_paging_claims_first(process_id, size) ==
    LET pages_needed == PagesNeeded(size, page_size)
        free_frames == FreeFrames(page_table)
        allocated_frames == Prefix(free_frames, pages_needed)
        pt == MarkFrames(page_table, FrameIds(allocated_frames), process_id)
    IN  IF Len(free_frames) < pages_needed
        THEN Outcome(memory, pt, allocated_processes, stats,
                 log_event(recent_events, process_id, "Allocation Failed",
                     Details("Not enough free frames", pages_needed,
                             Len(free_frames))),
                 FALSE)
        ELSE LET mem == update_memory_from_page_table(pt)
                 procs == Put(allocated_processes, process_id,
                     [size |-> size,
                      frames |-> [k \in 1..Len(allocated_frames) |->
                                     allocated_frames[k].frame_id],
                      method |-> "paging"])
             IN  Outcome(mem, pt, procs,
                     update_stats(mem, procs, memory_size, page_size),
                     log_event(recent_events, process_id, "Allocation",
                         Details("Allocated pages for size", pages_needed, size)),
                     TRUE)

allocate_process_paging(process_id, size) ==
    LET pages_needed == PagesNeeded(size, page_size)
        free_frames == FreeFrames(page_table)
    IN  IF Len(free_frames) < pages_needed
        THEN Outcome(memory, page_table, allocated_processes, stats,
                 log_event(recent_events, process_id, "Allocation Failed",
                     Details("Not enough free frames", pages_needed,
                             Len(free_frames))),
                 FALSE)
        ELSE LET allocated_frames == Prefix(free_frames, pages_needed)
                 pt == MarkFrames(page_table, FrameIds(allocated_frames),
                                  process_id)
                 mem == update_memory_from_page_table(pt)
                 procs == Put(allocated_processes, process_id,
                     [size |-> size,
                      frames |-> [k \in 1..Len(allocated_frames) |->
                                     allocated_frames[k].frame_id],
                      method |-> "paging"])
             IN  Outcome(mem, pt, procs,
                     update_stats(mem, procs, memory_size, page_size),
                     log_event(recent_events, process_id, "Allocation",
                         Details("Allocated pages for size", pages_needed, size)),
                     TRUE)

\* the positions i (1-based) of the blocks the first-fit loop may stop at
Fits(mem, size) ==
    {i \in 1..Len(mem) : mem[i].process_id = NoProcess /\ mem[i].size >= size}

FirstFit(mem, size) == CHOOSE i \in Fits(mem, size) : \A j \in Fits(mem, size) : i <= j

\* ClaimBlock with the free remainder keeping the size of the whole block
ClaimBlock_remainder_unshrunk(mem, i, process_id, size) ==
    LET block == mem[i]
    IN  IF block.size = size
        THEN [mem EXCEPT ![i].process_id = process_id]
        ELSE LET end_addr == block.start + size - 1
                 new_block == [start |-> block.start + size,
                               end |-> block.end,
                               size |-> block.size,
                               process_id |-> NoProcess]
             IN  InsertAt([mem EXCEPT ![i].end = end_addr,
                                      ![i].size = size,
                                      ![i].process_id = process_id],
                          i + 1, new_block)

\* the block list after the block at position i was claimed (and split)
ClaimBlock(mem, i, process_id, size) ==
    LET block == mem[i]
    IN  IF block.size = size
        THEN [mem EXCEPT ![i].process_id = process_id]
        ELSE LET end_addr == block.start + size - 1
                 new_block == [start |-> block.start + size,
                               end |-> block.end,
                               size |-> block.size - size,
                               process_id |-> NoProcess]
             IN  InsertAt([mem EXCEPT ![i].end = end_addr,
                                      ![i].size = size,
                                      ![i].process_id = process_id],
                          i + 1, new_block)

allocate_process_segmentation(process_id, size) ==
    IF Fits(memory, size) = {}
    THEN Outcome(memory, page_table, allocated_processes, stats,
             log_event(recent_events, process_id, "Allocation Failed",
                 Details("No suitable free block found for size", size, 0)),
             FALSE)
    ELSE LET i == FirstFit(memory, size)
             mem == ClaimBlock(memory, i, process_id, size)
             block == mem[i]
             start_page == block.start \div page_size
             end_page == block.end \div page_size
             pt == MarkRange(page_table, start_page, end_page, process_id)
             procs == Put(allocated_processes, process_id,
                 [size |-> size, start |-> block.start, end |-> block.end,
                  method |-> "segmentation"])
         IN  Outcome(mem, pt, procs,
                 update_stats(mem, procs, memory_size, page_size),
                 log_event(recent_events, process_id, "Allocation",
                     Details("Allocated segment of size at address", size,
                             block.start)),
                 TRUE)

allocate_process(process_id, size, method) ==
    IF method = "paging"
    THEN allocate_process_paging(process_id, size)
    ELSE allocate_process_segmentation(process_id, size)

\* the positions of the blocks owned by process_id
OwnedAt(mem, process_id) == {i \in 1..Len(mem) : mem[i].process_id = process_id}

\* the else branch of deallocate_process up to the merge: the first block
\* owned by the process is freed, with the frames it touches
FreeSegment(mem, pt, process_id) ==
    IF OwnedAt(mem, process_id) = {}
    THEN [memory |-> mem, page_table |-> pt]
    ELSE LET i == CHOOSE k \in OwnedAt(mem, process_id) :
                      \A j \in OwnedAt(mem, process_id) : k <= j
             block == mem[i]
             start_page == block.start \div page_size
             end_page == block.end \div page_size
         IN  [memory |-> [mem EXCEPT ![i].process_id = NoProcess],
              page_table |-> MarkRange(pt, start_page, end_page, NoProcess)]

\* a deallocation that does not look the process up first: an unknown pid
\* takes the paging path with no frames
deallocate_process_unchecked(process_id) ==
    LET known == process_id \in DOMAIN allocated_processes
        process_info == IF known THEN allocated_processes[process_id]
                        ELSE [size |-> 0, frames |-> <<>>, method |-> "paging"]
        freed ==
            IF process_info.method = "paging"
            THEN LET pt == MarkFrames(page_table,
                               {process_info.frames[k] :
                                   k \in 1..Len(process_info.frames)},
                               NoProcess)
                 IN  [memory |-> update_memory_from_page_table(pt),
                      page_table |-> pt]
            ELSE LET f == FreeSegment(memory, page_table, process_id)
                 IN  [memory |-> merge_free_blocks(f.memory),
                      page_table |-> f.page_table]
        procs == Del(allocated_processes, process_id)
    IN  Outcome(freed.memory, freed.page_table, procs,
            update_stats(freed.memory, procs, memory_size, page_size),
            log_event(recent_events, process_id, "Deallocation",
                Details("Process removed from memory", 0, 0)),
            TRUE)

deallocate_process(process_id) ==
    IF process_id \notin DOMAIN allocated_processes
    THEN Outcome(memory, page_table, allocated_processes, stats,
                 recent_events, FALSE)
    ELSE LET process_info == allocated_processes[process_id]
             freed ==
                 IF process_info.method = "paging"
                 THEN LET pt == MarkFrames(page_table,
                                    {process_info.frames[k] :
                                        k \in 1..Len(process_info.frames)},
                                    NoProcess)
                      IN  [memory |-> update_memory_from_page_table(pt),
                           page_table |-> pt]
                 ELSE LET f == FreeSegment(memory, page_table, process_id)
                      IN  [memory |-> merge_free_blocks(f.memory),
                           page_table |-> f.page_table]
             procs == Del(allocated_processes, process_id)
         IN  Outcome(freed.memory, freed.page_table, procs,
                 update_stats(freed.memory, procs, memory_size, page_size),
                 log_event(recent_events, process_id, "Deallocation",
                     Details("Process removed from memory", 0, 0)),
                 TRUE)

\* ------------------------------------------------------------- actions
\* sizes a caller may pass: less than a page, more than a page and the
\* whole memory; and the non-positive ones
PositiveSizes == {1, page_size + 1, memory_size}
NonPositiveSizes == {0 - page_size, 0}

\* The engine only ever compares process ids for equality, so the callers
\* use them in order: a call names a pid used before or the next unused one.
UsedPids ==
    DOMAIN allocated_processes \cup allocated_process_ids \cup timers
        \cup {recent_events[i].process_id : i \in 1..Len(recent_events)}
        \cup {local[t].process_id : t \in Threads}

RECURSIVE MaxOf(_)
MaxOf(S) == IF S = {} THEN 0
            ELSE LET x == CHOOSE y \in S : TRUE IN Max(x, MaxOf(S \ {x}))

PidInputs == 1..Min(MaxPid, MaxOf(UsedPids) + 1)

Install(r) ==
    /\ memory' = r.memory
    /\ page_table' = r.page_table
    /\ allocated_processes' = r.allocated_processes
    /\ stats' = r.stats
    /\ recent_events' = r.recent_events

\* every allocate_process logs one event; a deallocate_process logs one when
\* the process is registered
Allocate(process_id, size, method) ==
    /\ Len(recent_events) < MaxEvents
    /\ LET r == allocate_process(process_id, size, method)
       IN  /\ Install(r)
           /\ call' = Returned("allocate", process_id, size, method, r.ret)
    /\ UNCHANGED <<config, gui, threads>>

Deallocate(process_id) ==
    /\ process_id \in DOMAIN allocated_processes
           => Len(recent_events) < MaxEvents
    /\ LET r == deallocate_process(process_id)
       IN  /\ Install(r)
           /\ call' = Returned("deallocate", process_id, 0, "none", r.ret)
    /\ UNCHANGED <<config, gui, threads>>

Next ==
    \/ \E p \in PidInputs, s \in PositiveSizes, m \in Methods : Allocate(p, s, m)
    \/ \E p \in PidInputs, s \in NonPositiveSizes, m \in Methods : Allocate(p, s, m)
    \/ \E p \in PidInputs : Deallocate(p)

Spec == Init /\ [][Next]_vars

\* =====================================================================
\* Properties of the engine under sequential calls (Spec)
\* =====================================================================
\* A step in which a call returns sets call, and only such a step changes
\* the log.  A call repeated with the same result leaves call as it is: it
\* shows in the log if it logs, and changes nothing at all if it is a
\* deallocation that fails again.
CallStep == call' # call \/ recent_events' # recent_events
AllocateStep == call'.op = "allocate" /\ CallStep
DeallocateStep == call'.op = "deallocate" /\ CallStep

\* exactly one event was appended, of the given process and type
AppendedOne(process_id, event_type) ==
    /\ Len(recent_events') = Len(recent_events) + 1
    /\ SubSeq(recent_events', 1, Len(recent_events)) = recent_events
    /\ Last(recent_events').process_id = process_id
    /\ Last(recent_events').event_type = event_type

Registered == DOMAIN allocated_processes

FramesOwnedBy(process_id) ==
    {page_table[k].frame_id :
        k \in {j \in 1..Len(page_table) : page_table[j].process_id = process_id}}

\* C1: the block list is ordered by address, gapless, starts at 0, ends at
\* memory_size - 1, and no two consecutive blocks have the same owner.
BlockListInvariant ==
    /\ Len(memory) >= 1
    /\ memory[1].start = 0
    /\ memory[Len(memory)].end = memory_size - 1
    /\ \A i \in 1..(Len(memory) - 1) :
          /\ memory[i].start < memory[i + 1].start
          /\ memory[i].end + 1 = memory[i + 1].start
          /\ memory[i].process_id # memory[i + 1].process_id

\* C2: for every process in the registry the recorded location matches the
\* ownership in the engine: the frame ids of a paging process are the frames
\* it owns, the [start, end] of a segmentation process is the range of the
\* blocks it owns.
RegistryMatchesOwnership ==
    \A p \in Registered :
        LET info == allocated_processes[p]
            owned == OwnedAt(memory, p)
        IN  IF info.method = "paging"
            THEN {info.frames[k] : k \in 1..Len(info.frames)} = FramesOwnedBy(p)
            ELSE /\ owned # {}
                 /\ \A i \in owned :
                       memory[i].start >= info.start /\ memory[i].end <= info.end
                 /\ \E i \in owned : memory[i].start = info.start
                 /\ \E i \in owned : memory[i].end = info.end

\* C3: allocate_process for a pid that is already in the registry fails,
\* leaves blocks, frame table, registry and stats unchanged, and appends
\* exactly one event.
DuplicateAllocationRejected ==
    [][ (AllocateStep /\ call'.process_id \in Registered)
        => /\ call'.ret = FALSE
           /\ UNCHANGED engine
           /\ AppendedOne(call'.process_id, "Allocation Failed") ]_vars

\* C4: allocate_process with size <= 0 fails, for either method, and blocks,
\* frame table and registry are unchanged.
NonPositiveSizeRejected ==
    [][ (AllocateStep /\ call'.size <= 0)
        => /\ call'.ret = FALSE
           /\ UNCHANGED <<memory, page_table, allocated_processes>> ]_vars

\* C5: every allocate_process and every deallocate_process call, whether it
\* succeeds or fails, appends exactly one event describing that outcome.
EveryCallLogsOneEvent ==
    [][ /\ AllocateStep =>
            AppendedOne(call'.process_id,
                IF call'.ret THEN "Allocation" ELSE "Allocation Failed")
        /\ DeallocateStep =>
            AppendedOne(call'.process_id,
                IF call'.ret THEN "Deallocation" ELSE "Deallocation Failed")
      ]_vars

\* whether the engine, as it is, has room for an allocation
HasRoom(size, method) ==
    IF method = "paging"
    THEN Len(FreeFrames(page_table)) >= PagesNeeded(size, page_size)
    ELSE \E i \in 1..Len(memory) :
            memory[i].process_id = NoProcess /\ memory[i].size >= size

\* C6: an allocation that finds too few free frames (paging) or no free
\* block large enough (segmentation) fails and leaves the block list, the
\* frame table, the registry and the stats as they were; the only change is
\* one appended event.
FailedAllocationChangesNothing ==
    [][ (AllocateStep /\ (~HasRoom(call'.size, call'.method) \/ ~call'.ret))
        => /\ call'.ret = FALSE
           /\ ~HasRoom(call'.size, call'.method)
           /\ UNCHANGED engine
           /\ AppendedOne(call'.process_id, "Allocation Failed") ]_vars

\* C6 happens: with a process allocated, a paging and a segmentation
\* allocation have both failed
FailedAllocationWitness ==
    /\ call.op = "allocate" /\ call.ret = FALSE
    /\ Registered # {}
    /\ \E i, j \in 1..Len(recent_events) :
          /\ recent_events[i].event_type = "Allocation Failed"
          /\ recent_events[i].details.text = "Not enough free frames"
          /\ recent_events[j].event_type = "Allocation Failed"
          /\ recent_events[j].details.text = "No suitable free block found for size"

\* the log shows that process_id was deallocated
WasDeallocated(process_id) ==
    \E i \in 1..Len(recent_events) :
        /\ recent_events[i].process_id = process_id
        /\ recent_events[i].event_type = "Deallocation"

\* C7: deallocate_process for a pid that is not in the registry fails and
\* leaves blocks, frame table, registry and stats unchanged; a pid that was
\* deallocated is allocated again whenever the engine has room for it.
UnknownPidDeallocationFails ==
    [][ /\ (DeallocateStep /\ call'.process_id \notin Registered)
            => (call'.ret = FALSE /\ UNCHANGED engine)
        /\ (DeallocateStep /\ call'.ret)
            => call'.process_id \notin DOMAIN allocated_processes'
        /\ (AllocateStep /\ WasDeallocated(call'.process_id)
                /\ call'.process_id \notin Registered
                /\ HasRoom(call'.size, call'.method))
            => (call'.ret /\ call'.process_id \in DOMAIN allocated_processes')
      ]_vars

\* C7 happens: a process was allocated and deallocated, and a further
\* deallocation of it has failed while another process is allocated
UnknownPidDeallocationWitness ==
    /\ call.op = "deallocate" /\ call.ret = FALSE
    /\ WasDeallocated(call.process_id)
    /\ call.process_id \notin Registered
    /\ Registered # {}

\* =====================================================================
\* The GUI's threads (src/gui.py).  _remove_process runs on the Tk main
\* thread, _auto_remove_process on the thread of a threading.Timer; both
\* call deallocate_process, which takes no lock, so the interpreter may
\* switch threads between its statements.  _add_process and
\* _update_visualization run on the main thread and are taken here without
\* a switch inside them.
\* =====================================================================
InCall == {"check", "info", "free_frame", "clear", "scan", "flush",
           "free_segment", "merge", "del", "stats", "log"}

Other(t) == CHOOSE u \in Threads : u # t

At(t, label) == pc[t] = label
Goto(t, label) == pc' = [pc EXCEPT ![t] = label]
SetLocal(t, l) == local' = [local EXCEPT ![t] = l]

\* thread t calls deallocate_process(process_id)
EnterDeallocate(t, process_id) ==
    LET u == Other(t)
        overlap == /\ pc[u] \in InCall
                   /\ local[u].process_id = process_id
                   /\ local[u].present
    IN  /\ Goto(t, "check")
        /\ SetLocal(t, [NoLocal EXCEPT
               !.process_id = process_id,
               !.present = process_id \in DOMAIN allocated_processes])
        /\ outcome' = [outcome EXCEPT ![t] = "running"]
        /\ raced' = IF overlap THEN [x \in Threads |-> TRUE]
                    ELSE [raced EXCEPT ![t] = FALSE]

\* an exception leaves deallocate_process and the handler that called it
Raise(t, exception) ==
    /\ outcome' = [outcome EXCEPT ![t] = exception]
    /\ Goto(t, "idle")
    /\ SetLocal(t, NoLocal)

\* line 111-112: if process_id not in self.allocated_processes: return False
Check(t) ==
    /\ At(t, "check")
    /\ IF local[t].process_id \notin DOMAIN allocated_processes
       THEN /\ Goto(t, "ret")
            /\ outcome' = [outcome EXCEPT ![t] = "False"]
            /\ call' = Returned("deallocate", local[t].process_id, 0, "none", FALSE)
       ELSE /\ Goto(t, "info")
            /\ UNCHANGED <<outcome, call>>
    /\ UNCHANGED <<config, engine, recent_events, gui, local, raced, seen>>

\* line 114-116: process_info = self.allocated_processes[process_id]
Info(t) ==
    /\ At(t, "info")
    /\ IF local[t].process_id \notin DOMAIN allocated_processes
       THEN Raise(t, "KeyError")
       ELSE LET process_info == allocated_processes[local[t].process_id]
            IN  /\ SetLocal(t, [local[t] EXCEPT !.process_info = process_info,
                                                !.k = 1])
                /\ Goto(t, IF process_info.method = "paging"
                           THEN (IF process_info.frames = <<>> THEN "clear"
                                 ELSE "free_frame")
                           ELSE "free_segment")
                /\ UNCHANGED outcome
    /\ UNCHANGED <<config, engine, recent_events, call, gui, raced, seen>>

\* line 117-120: one turn of the loop over process_info['frames']
FreeFrame(t) ==
    /\ At(t, "free_frame")
    /\ LET frames == local[t].process_info.frames
           k == local[t].k
       IN  /\ page_table' = MarkFrames(page_table, {frames[k]}, NoProcess)
           /\ SetLocal(t, [local[t] EXCEPT !.k = IF k < Len(frames) THEN k + 1 ELSE 1])
           /\ Goto(t, IF k < Len(frames) THEN "free_frame" ELSE "clear")
    /\ UNCHANGED <<config, memory, allocated_processes, stats, recent_events,
                   call, gui, outcome, raced, seen>>

\* line 140-141: self.memory = []; current_block = None
Clear(t) ==
    /\ At(t, "clear")
    /\ memory' = <<>>
    /\ SetLocal(t, [local[t] EXCEPT !.k = 1, !.current_block = NoBlock,
                                    !.has_current = FALSE])
    /\ Goto(t, "scan")
    /\ UNCHANGED <<config, page_table, allocated_processes, stats,
                   recent_events, call, gui, outcome, raced, seen>>

\* line 142-157: one turn of the loop over the frames
Scan(t) ==
    /\ At(t, "scan")
    /\ LET k == local[t].k
           frame == page_table[k]
           current_block == local[t].current_block
           fresh == ~local[t].has_current
                        \/ current_block.process_id # frame.process_id
       IN  /\ memory' = IF fresh /\ local[t].has_current
                        THEN Append(memory, current_block)
                        ELSE memory
           /\ SetLocal(t, [local[t] EXCEPT
                  !.k = k + 1,
                  !.has_current = TRUE,
                  !.current_block =
                      IF fresh
                      THEN [start |-> frame.start_address,
                            end |-> frame.end_address,
                            size |-> frame.end_address - frame.start_address + 1,
                            process_id |-> frame.process_id]
                      ELSE [current_block EXCEPT
                               !.end = frame.end_address,
                               !.size = frame.end_address - current_block.start + 1]])
           /\ Goto(t, IF k < Len(page_table) THEN "scan" ELSE "flush")
    /\ UNCHANGED <<config, page_table, allocated_processes, stats,
                   recent_events, call, gui, outcome, raced, seen>>

\* line 158-159: if current_block is not None: self.memory.append(...)
Flush(t) ==
    /\ At(t, "flush")
    /\ memory' = IF local[t].has_current
                 THEN Append(memory, local[t].current_block)
                 ELSE memory
    /\ Goto(t, "del")
    /\ UNCHANGED <<config, page_table, allocated_processes, stats,
                   recent_events, call, gui, local, outcome, raced, seen>>

\* line 123-131: the block of the process and its frames are freed
FreeSegmentStep(t) ==
    /\ At(t, "free_segment")
    /\ LET f == FreeSegment(memory, page_table, local[t].process_id)
       IN  /\ memory' = f.memory
           /\ page_table' = f.page_table
    /\ SetLocal(t, [local[t] EXCEPT !.k = 0])
    /\ Goto(t, "merge")
    /\ UNCHANGED <<config, allocated_processes, stats, recent_events, call,
                   gui, outcome, raced, seen>>

\* a turn of the merge loop that does not move on from a pair of blocks it
\* cannot merge
Merge_stays_on_unmerged_pair(t) ==
    /\ At(t, "merge")
    /\ LET i == local[t].k
       IN  IF i < Len(memory) - 1
           THEN /\ IF /\ memory[i + 1].process_id = NoProcess
                      /\ memory[i + 2].process_id = NoProcess
                   THEN /\ memory' = RemoveAt(
                               [memory EXCEPT
                                   ![i + 1].end = memory[i + 2].end,
                                   ![i + 1].size = @ + memory[i + 2].size],
                               i + 2)
                        /\ UNCHANGED local
                   ELSE UNCHANGED <<memory, local>>
                /\ UNCHANGED pc
           ELSE /\ Goto(t, "del")
                /\ UNCHANGED <<memory, local>>
    /\ UNCHANGED <<config, page_table, allocated_processes, stats,
                   recent_events, call, gui, outcome, raced, seen>>

\* line 163-169: one turn of the while loop of _merge_free_blocks
Merge(t) ==
    /\ At(t, "merge")
    /\ LET i == local[t].k
       IN  IF i < Len(memory) - 1
           THEN /\ IF /\ memory[i + 1].process_id = NoProcess
                      /\ memory[i + 2].process_id = NoProcess
                   THEN /\ memory' = RemoveAt(
                               [memory EXCEPT
                                   ![i + 1].end = memory[i + 2].end,
                                   ![i + 1].size = @ + memory[i + 2].size],
                               i + 2)
                        /\ UNCHANGED local
                   ELSE /\ SetLocal(t, [local[t] EXCEPT !.k = i + 1])
                        /\ UNCHANGED memory
                /\ UNCHANGED pc
           ELSE /\ Goto(t, "del")
                /\ UNCHANGED <<memory, local>>
    /\ UNCHANGED <<config, page_table, allocated_processes, stats,
                   recent_events, call, gui, outcome, raced, seen>>

\* line 134: del self.allocated_processes[process_id]
DelStep(t) ==
    /\ At(t, "del")
    /\ IF local[t].process_id \notin DOMAIN allocated_processes
       THEN /\ Raise(t, "KeyError")
            /\ UNCHANGED allocated_processes
       ELSE /\ allocated_processes' = Del(allocated_processes, local[t].process_id)
            /\ Goto(t, "stats")
            /\ UNCHANGED <<local, outcome>>
    /\ UNCHANGED <<config, memory, page_table, stats, recent_events, call,
                   gui, raced, seen>>

\* line 135: self._update_stats()
StatsStep(t) ==
    /\ At(t, "stats")
    /\ stats' = update_stats(memory, allocated_processes, memory_size, page_size)
    /\ Goto(t, "log")
    /\ UNCHANGED <<config, memory, page_table, allocated_processes,
                   recent_events, call, gui, local, outcome, raced, seen>>

\* line 136-137: self._log_event(...); return True
LogStep(t) ==
    /\ At(t, "log")
    /\ recent_events' = log_event(recent_events, local[t].process_id,
           "Deallocation", Details("Process removed from memory", 0, 0))
    /\ call' = Returned("deallocate", local[t].process_id, 0, "none", TRUE)
    /\ outcome' = [outcome EXCEPT ![t] = "True"]
    /\ Goto(t, "ret")
    /\ UNCHANGED <<config, engine, gui, local, raced, seen>>

\* gui.py 369-374 and 414-419: the handler after deallocate_process returned
Ret(t) ==
    /\ At(t, "ret")
    /\ allocated_process_ids' =
           IF outcome[t] = "True"
           THEN allocated_process_ids \ {local[t].process_id}
           ELSE allocated_process_ids
    /\ Goto(t, "idle")
    /\ SetLocal(t, NoLocal)
    /\ UNCHANGED <<config, engine, recent_events, call, simulation_running,
                   timers, session, outcome, raced, seen>>

DeallocateSteps(t) ==
    \/ Check(t) \/ Info(t) \/ FreeFrame(t) \/ Clear(t) \/ Scan(t) \/ Flush(t)
    \/ FreeSegmentStep(t) \/ Merge(t) \/ DelStep(t) \/ StatsStep(t)
    \/ LogStep(t) \/ Ret(t)

\* _add_process with a process id entered, while the simulation runs
\* (gui.py 286-318); a size <= 0 or an id in allocated_process_ids only
\* writes to the GUI's text log
AddProcess(process_id, size, method) ==
    /\ At("main", "idle")
    /\ simulation_running
    /\ size > 0
    /\ process_id \notin allocated_process_ids
    /\ Len(recent_events) < MaxThreadEvents
    /\ LET r == allocate_process(process_id, size, method)
       IN  /\ Install(r)
           /\ call' = Returned("allocate", process_id, size, method, r.ret)
           /\ allocated_process_ids' =
                  IF r.ret THEN allocated_process_ids \cup {process_id}
                  ELSE allocated_process_ids
           /\ timers' = IF r.ret THEN timers \cup {process_id} ELSE timers
    /\ UNCHANGED <<config, simulation_running, session, threads>>

\* _remove_process (gui.py 361-368) up to the call of deallocate_process
RemoveProcess(process_id) ==
    /\ At("main", "idle")
    /\ simulation_running
    /\ Len(recent_events) < MaxThreadEvents
    /\ EnterDeallocate("main", process_id)
    /\ UNCHANGED <<config, engine, recent_events, call, gui, seen>>

\* a timer expires: _auto_remove_process (gui.py 410-413) up to the call
AutoRemoveProcess(process_id) ==
    /\ At("timer", "idle")
    /\ process_id \in timers
    /\ timers' = timers \ {process_id}
    /\ IF simulation_running
       THEN EnterDeallocate("timer", process_id)
       ELSE UNCHANGED <<pc, local, outcome, raced>>
    /\ UNCHANGED <<config, engine, recent_events, call, simulation_running,
                   allocated_process_ids, session, seen>>

\* _update_visualization (gui.py 206-210): the four snapshot reads
Poll ==
    /\ At("main", "idle")
    /\ seen' = Snapshot(memory, page_table, stats, recent_events)
    /\ UNCHANGED <<config, engine, recent_events, call, gui, pc, local,
                   outcome, raced>>

\* the state after "Start Simulation" was pressed with nothing pending
InitThreads ==
    /\ InitEngine
    /\ InitGui
    /\ simulation_running = TRUE

NextThreads ==
    \/ \E p \in PidInputs, s \in PositiveSizes, m \in Methods : AddProcess(p, s, m)
    \/ \E p \in PidInputs : RemoveProcess(p)
    \/ \E p \in timers : AutoRemoveProcess(p)
    \/ Poll
    \/ \E t \in Threads : DeallocateSteps(t)

SpecThreads == InitThreads /\ [][NextThreads]_vars

\* ---------------------------------------------------------------------
\* Claims about the threads
\* ---------------------------------------------------------------------
OwnedSizes(mem) == [i \in 1..Len(mem) |->
                       IF mem[i].process_id # NoProcess THEN mem[i].size ELSE 0]

CoversMemory(mem) ==
    /\ Len(mem) >= 1
    /\ mem[1].start = 0
    /\ mem[Len(mem)].end = memory_size - 1
    /\ \A i \in 1..(Len(mem) - 1) : mem[i + 1].start = mem[i].end + 1

\* C8: no poll of the snapshots observes an intermediate state of a
\* mutating call: the block list a poll reads always covers the whole
\* memory without a gap, and the used memory it reads is the size of the
\* owned blocks it reads.
PollSeesNoIntermediateState ==
    /\ CoversMemory(seen.memory)
    /\ seen.stats.used_memory = SumSeq(OwnedSizes(seen.memory))

\* C9: when the timer's deallocate_process(pid) and the manual
\* deallocate_process(pid) overlap, neither raises an error, and once both
\* have returned exactly one has returned True and the other False.
RacingDeallocationsHaveOneWinner ==
    (raced["main"] /\ raced["timer"]) =>
        /\ \A t \in Threads : outcome[t] # "KeyError"
        /\ (\A t \in Threads : outcome[t] \in {"True", "False"}) =>
               outcome["main"] # outcome["timer"]

\* =====================================================================
\* Snapshots in the hands of a caller (memory_allocation_engine.py 33-43).
\* list.copy() and a slice build a new list of the SAME dict objects, so an
\* element of a snapshot is a reference to the engine's own block, frame or
\* event; dict.copy() of stats builds a new dict of numbers.
\* =====================================================================
Ref(list, index) == [list |-> list, index |-> index]

\* line 35: return self.memory.copy()
get_memory_snapshot == [i \in 1..Len(memory) |-> Ref("memory", i)]

\* line 38: return self.page_table.copy()
get_page_table_snapshot == [i \in 1..Len(page_table) |-> Ref("page_table", i)]

\* line 41: return self.stats.copy()
get_memory_stats == stats

\* line 43: return self.recent_events[-5:] if self.recent_events else []
get_recent_events_snapshot ==
    LET n == Len(recent_events)
        first == Max(1, n - ShownEvents + 1)
    IN  [i \in 1..Min(n, ShownEvents) |-> Ref("recent_events", first + i - 1)]

\* a value no call has put in any record
Scribble == MaxPid + 1

\* ref['process_id'] = value, for a reference taken from a snapshot
SetProcessId(ref, value) ==
    /\ memory' = IF ref.list = "memory"
                 THEN [memory EXCEPT ![ref.index].process_id = value]
                 ELSE memory
    /\ page_table' = IF ref.list = "page_table"
                     THEN [page_table EXCEPT ![ref.index].process_id = value]
                     ELSE page_table
    /\ recent_events' = IF ref.list = "recent_events"
                        THEN [recent_events EXCEPT ![ref.index].process_id = value]
                        ELSE recent_events

\* the caller is the main thread; it keeps what it now holds in seen
Mutated == pc' = [pc EXCEPT !["main"] = "mutated"]

\* snapshot = get_memory_snapshot(); snapshot[i]['process_id'] = Scribble
MutateBlock(i) ==
    /\ At("main", "idle")
    /\ i \in DOMAIN get_memory_snapshot
    /\ SetProcessId(get_memory_snapshot[i], Scribble)
    /\ seen' = Snapshot(memory', page_table', stats, recent_events')
    /\ Mutated
    /\ UNCHANGED <<config, allocated_processes, stats, call, gui, local,
                   outcome, raced>>

\* snapshot = get_page_table_snapshot(); snapshot[i]['process_id'] = Scribble
MutateFrame(i) ==
    /\ At("main", "idle")
    /\ i \in DOMAIN get_page_table_snapshot
    /\ SetProcessId(get_page_table_snapshot[i], Scribble)
    /\ seen' = Snapshot(memory', page_table', stats, recent_events')
    /\ Mutated
    /\ UNCHANGED <<config, allocated_processes, stats, call, gui, local,
                   outcome, raced>>

\* snapshot = get_recent_events(); snapshot[i]['process_id'] = Scribble
MutateEvent(i) ==
    /\ At("main", "idle")
    /\ i \in DOMAIN get_recent_events_snapshot
    /\ SetProcessId(get_recent_events_snapshot[i], Scribble)
    /\ seen' = Snapshot(memory', page_table', stats, recent_events')
    /\ Mutated
    /\ UNCHANGED <<config, allocated_processes, stats, call, gui, local,
                   outcome, raced>>

\* snapshot = get_memory_stats(); snapshot['used_memory'] = Scribble
MutateStats ==
    /\ At("main", "idle")
    /\ seen' = [Snapshot(memory, page_table, stats, recent_events)
                   EXCEPT !.stats = [get_memory_stats EXCEPT !.used_memory = Scribble]]
    /\ Mutated
    /\ UNCHANGED <<config, engine, recent_events, call, gui, local, outcome,
                   raced>>

\* snapshot = get_memory_snapshot(); snapshot.pop(0): the new list shrinks
PopBlock ==
    /\ At("main", "idle")
    /\ memory # <<>>
    /\ seen' = [Snapshot(memory, page_table, stats, recent_events)
                   EXCEPT !.memory = Tail(memory)]
    /\ Mutated
    /\ UNCHANGED <<config, engine, recent_events, call, gui, local, outcome,
                   raced>>

\* the calls of Next, and then one mutation of a snapshot by the caller
NextSnap ==
    \/ At("main", "idle") /\ Next
    \/ \E i \in 1..(NumFrames * PageSize) : MutateBlock(i)
    \/ \E i \in 1..NumFrames : MutateFrame(i)
    \/ \E i \in 1..ShownEvents : MutateEvent(i)
    \/ MutateStats
    \/ PopBlock

SpecSnap == Init /\ [][NextSnap]_vars

\* ---------------------------------------------------------------------
\* Claims about snapshots
\* ---------------------------------------------------------------------
\* C10: mutating an element returned by get_memory_snapshot,
\* get_page_table_snapshot, get_memory_stats or get_recent_events, a field
\* of a block, frame or event included, never changes the engine's blocks,
\* frame table, stats or event log.
SnapshotMutationLeavesEngineAlone ==
    [][pc'["main"] = "mutated" =>
          UNCHANGED <<memory, page_table, stats, recent_events>>]_vars

\* ---------------------------------------------------------------------
\* Further properties of the engine under sequential calls (Spec)
\* ---------------------------------------------------------------------
AllFramesFree == \A k \in 1..Len(page_table) : page_table[k].process_id = NoProcess

\* C11: a deallocate_process(pid) that directly follows a successful
\* allocate_process(pid, s, m), with no other process registered, leaves the
\* block list as the single free block [0, memory_size - 1] and every frame
\* free.
RoundTripRestoresFreeMemory ==
    [][ ( /\ DeallocateStep
          /\ call.op = "allocate" /\ call.ret
          /\ call'.process_id = call.process_id
          /\ Registered \subseteq {call.process_id} )
        => /\ memory' = InitMemory(memory_size)
           /\ AllFramesFree' ]_vars

BlockSizes(mem) == [i \in 1..Len(mem) |-> mem[i].size]

HasAllocated(text) ==
    \E i \in 1..Len(recent_events) :
        /\ recent_events[i].event_type = "Allocation"
        /\ recent_events[i].details.text = text

LongRunPid == 1

LongRunAllocate(method) ==
    /\ LET r == allocate_process(LongRunPid, memory_size, method)
       IN  /\ Install(r)
           /\ call' = Returned("allocate", LongRunPid, memory_size, method, r.ret)
    /\ UNCHANGED <<config, gui, threads>>

LongRunDeallocate ==
    /\ LET r == deallocate_process(LongRunPid)
       IN  /\ Install(r)
           /\ call' = Returned("deallocate", LongRunPid, 0, "none", r.ret)
    /\ UNCHANGED <<config, gui, threads>>

NextLongRun ==
    \/ \E m \in Methods : LongRunAllocate(m)
    \/ LongRunDeallocate

SpecLongRun == Init /\ [][NextLongRun]_vars

\* the last n elements of s, or all of s when it has fewer
LastN(s, n) ==
    LET k == IF Len(s) < n THEN Len(s) ELSE n
    IN  [i \in 1..k |-> s[Len(s) - k + i]]

\* the event of the call that returned
EventTypeOf(c) ==
    IF c.op = "deallocate" THEN "Deallocation"
    ELSE IF c.ret THEN "Allocation" ELSE "Allocation Failed"

\* the log is now the last 10 of: the old log, then the event of the call
LoggedOne ==
    /\ recent_events' # <<>>
    /\ Last(recent_events').process_id = call'.process_id
    /\ Last(recent_events').event_type = EventTypeOf(call')
    /\ recent_events' = LastN(Append(recent_events, Last(recent_events')), 10)

\* C13: the event log never holds more than 10 events and evicts the oldest
\* first: a call that logs turns the log into the last 10 of the old log
\* followed by the new event, so the log is always the last min(n, 10)
\* events logged, in order; get_recent_events returns the last min(n, 5).
LogKeepsLastTen ==
    [][ /\ Len(recent_events') <= 10
        /\ CallStep =>
              \/ recent_events' = recent_events
              \/ LoggedOne
        /\ (AllocateStep \/ (DeallocateStep /\ call'.ret)) => LoggedOne
        /\ get_recent_events(recent_events') = LastN(recent_events', 5)
      ]_vars

\* C13 happens: the log is full and its oldest event is not the first event
\* ever logged (the first call that logs is a successful allocation)
LogEvictionWitness ==
    /\ Len(recent_events) = 10
    /\ recent_events[1].event_type # "Allocation"
    /\ Len(get_recent_events(recent_events)) = 5

\* ---------------------------------------------------------------------
\* Fragmentation accounting (Spec)
\* ---------------------------------------------------------------------
\* ceil(a / b) for a > 0, b > 0
Ceil(a, b) == CHOOSE n \in 1..a : n * b >= a /\ (n - 1) * b < a

PagingPids(procs) == {p \in DOMAIN procs : procs[p].method = "paging"}

\* frame_count * page_size - requested_size of a paging process
Waste(procs, p) == Len(procs[p].frames) * page_size - procs[p].size

RECURSIVE TotalWaste(_, _)
TotalWaste(procs, pids) ==
    IF pids = {} THEN 0
    ELSE LET p == CHOOSE q \in pids : TRUE
         IN  Waste(procs, p) + TotalWaste(procs, pids \ {p})

\* C14: a paging allocation of a size > 0 gives the process exactly
\* ceil(size / page_size) frames; stats.internal_fragmentation is always the
\* sum over the registered paging processes of
\* frame_count * page_size - size; for a single paging process it is
\* ceil(size / page_size) * page_size - size, which is 0 iff size is a
\* multiple of page_size.
PagingInternalFragmentation ==
    [][ /\ (AllocateStep /\ call'.method = "paging" /\ call'.size > 0 /\ call'.ret)
            => Len(allocated_processes'[call'.process_id].frames)
                   = Ceil(call'.size, page_size)
        /\ stats'.internal_fragmentation
               = TotalWaste(allocated_processes', PagingPids(allocated_processes'))
        /\ \A p \in DOMAIN allocated_processes' :
              ( /\ DOMAIN allocated_processes' = {p}
                /\ allocated_processes'[p].method = "paging"
                /\ allocated_processes'[p].size > 0 )
              => LET size == allocated_processes'[p].size
                 IN  /\ stats'.internal_fragmentation
                            = Ceil(size, page_size) * page_size - size
                     /\ (stats'.internal_fragmentation = 0)
                            <=> (size % page_size = 0)
      ]_vars

\* C14 happens: two paging processes of sizes > 0 are registered and waste
\* part of their last frames
PagingInternalFragmentationWitness ==
    /\ call.op = "allocate" /\ call.method = "paging" /\ call.ret
    /\ Cardinality(PagingPids(allocated_processes)) = 2
    /\ \A p \in PagingPids(allocated_processes) : allocated_processes[p].size > 0
    /\ stats.internal_fragmentation > 0

\* the sizes of the blocks process_id owns
OwnedBy(mem, process_id) ==
    [i \in 1..Len(mem) |-> IF mem[i].process_id = process_id THEN mem[i].size ELSE 0]

AllSegmentation ==
    \A p \in Registered : allocated_processes[p].method = "segmentation"

\* C15: in a state where every registered process was allocated by
\* segmentation, stats.internal_fragmentation is 0 and every process owns
\* exactly its requested size in blocks.
SegmentationWastesNothing ==
    AllSegmentation =>
        /\ stats.internal_fragmentation = 0
        /\ \A p \in Registered :
              SumSeq(OwnedBy(memory, p)) = allocated_processes[p].size

\* C16: in every reachable state the stats are what the current blocks and
\* registry give: used_memory is the size of the owned blocks, free_memory
\* is memory_size - used_memory, process_count is the number of registered
\* processes.
StatsAreNeverStale ==
    /\ stats.used_memory = SumSeq(OwnedSizes(memory))
    /\ stats.free_memory = memory_size - stats.used_memory
    /\ stats.process_count = Cardinality(Registered)
    /\ stats.total_memory = memory_size

\* C16 happens: after two allocations, the deallocation of one process and
\* a failed deallocation of it, the other process is left and uses memory
StatsAreNeverStaleWitness ==
    /\ WasDeallocated(call.process_id)
    /\ call.op = "deallocate" /\ call.ret = FALSE
    /\ Cardinality(Registered) = 1
    /\ stats.used_memory > 0

FreeSizes(mem) ==
    [i \in 1..Len(mem) |-> IF mem[i].process_id = NoProcess THEN mem[i].size ELSE 0]

FreeIndices(mem) == {i \in 1..Len(mem) : mem[i].process_id = NoProcess}

\* the size of the largest free block, 0 when there is none
LargestFree(mem) ==
    IF FreeIndices(mem) = {} THEN 0
    ELSE LET i == CHOOSE j \in FreeIndices(mem) :
                      \A k \in FreeIndices(mem) : mem[k].size <= mem[j].size
         IN  mem[i].size

\* C17: external_fragmentation is 1 - largest_free_block / free_memory when
\* free_memory > 0 and 0 otherwise; it lies in [0, 1), that is
\* 0 < largest_free_block <= free_memory whenever free_memory > 0; and it is
\* 0 exactly when free_memory is 0 or one free block holds all free memory.
ExternalFragmentationInRange ==
    LET ef == stats.external_fragmentation
        free_memory == stats.free_memory
        largest == LargestFree(memory)
    IN  /\ ef.den > 0
        /\ IF free_memory > 0
           THEN ef.num * free_memory = (free_memory - largest) * ef.den
           ELSE ef.num = 0
        /\ 0 <= ef.num /\ ef.num < ef.den
        /\ free_memory > 0 => (0 < largest /\ largest <= free_memory)
        /\ (ef.num = 0) <=>
               (free_memory = 0 \/ largest = SumSeq(FreeSizes(memory)))

\* =====================================================================
\* The constructor with any arguments (memory_allocation_engine.py 13-31)
\* =====================================================================
MemorySizeInputs == {0 - PageSize, 0, NumFrames * PageSize - 1, NumFrames * PageSize}
PageSizeInputs == {0 - PageSize, 0, PageSize}

\* memory_size // page_size raises ZeroDivisionError when page_size is 0:
\* __init__ is left at line 17 and the caller gets no instance
InitNew ==
    \E ms \in MemorySizeInputs, ps \in PageSizeInputs :
        /\ memory_size = ms
        /\ page_size = ps
        /\ memory = InitMemory(ms)
        /\ page_table = IF ps = 0 THEN <<>> ELSE InitPageTable(ms, ps)
        /\ allocated_processes = <<>>
        /\ recent_events = <<>>
        /\ stats = InitStats(ms)
        /\ call = NoCall
        /\ allocated_process_ids = {}
        /\ timers = {}
        /\ pending_processes = <<>>
        /\ next_pid = 1
        /\ stale_timers = {}
        /\ pc = [t \in Threads |-> "idle"]
        /\ local = [t \in Threads |-> NoLocal]
        /\ outcome = [t \in Threads |->
                         IF t = "main" /\ ps = 0 THEN "ZeroDivisionError"
                         ELSE "none"]
        /\ raced = [t \in Threads |-> FALSE]
        /\ seen = Snapshot(memory, page_table, stats, recent_events)
        /\ simulation_running = FALSE

\* the constructor returned an instance
Constructed == outcome["main"] # "ZeroDivisionError"

\* calls on the instance, if there is one
NextNew ==
    /\ Constructed
    /\ Len(recent_events) < MaxNewEvents
    /\ Next

SpecNew == InitNew /\ [][NextNew]_vars

ValidConfiguration ==
    /\ memory_size > 0
    /\ page_size > 0
    /\ IF page_size > 0 THEN memory_size % page_size = 0 ELSE FALSE

\* C18: a MemoryManager built with memory_size <= 0, page_size <= 0 or
\* memory_size not a multiple of page_size is refused with
\* InvalidConfiguration and no instance exists; one built with valid
\* arguments starts with memory_size / page_size free frames and one free
\* block over the whole memory.
ConstructorValidates ==
    /\ ~ValidConfiguration =>
           (~Constructed /\ outcome["main"] = "InvalidConfiguration")
    /\ (ValidConfiguration /\ call = NoCall) =>
           /\ Constructed
           /\ Len(page_table) * page_size = memory_size
           /\ AllFramesFree
           /\ memory = <<[start |-> 0, end |-> memory_size - 1,
                          size |-> memory_size, process_id |-> NoProcess]>>

\* ---------------------------------------------------------------------
\* The two allocation strategies (Spec)
\* ---------------------------------------------------------------------
FreeFrameIds == FramesOwnedBy(NoProcess)

\* the n lowest ids of S, for 0 <= n <= Cardinality(S)
Lowest(S, n) == {x \in S : Cardinality({y \in S : y < x}) < n}

\* C19: a paging allocation succeeds if and only if the number of free
\* frames is at least pages_needed, and on success it claims exactly the
\* pages_needed free frames with the lowest frame ids and leaves the owner
\* of every other frame unchanged.
PagingClaimsLowestFreeFrames ==
    [][ (AllocateStep /\ call'.method = "paging") =>
            LET pages_needed == PagesNeeded(call'.size, page_size)
                claimed == {page_table[k].frame_id :
                               k \in {j \in 1..Len(page_table) :
                                         page_table'[j] # page_table[j]}}
            IN  /\ call'.ret <=> Cardinality(FreeFrameIds) >= pages_needed
                /\ call'.ret =>
                      /\ Cardinality(claimed) = pages_needed
                      /\ claimed = Lowest(FreeFrameIds, pages_needed)
                      /\ \A k \in 1..Len(page_table) :
                            page_table'[k] =
                                IF page_table[k].frame_id \in claimed
                                THEN [page_table[k] EXCEPT
                                         !.process_id = call'.process_id]
                                ELSE page_table[k] ]_vars

\* =====================================================================
\* Sequential calls, one call longer than in Spec: long enough for a
\* deallocation to leave a free block below an owned one before the next
\* allocation.
\* =====================================================================
DeepAllocate(process_id, size, method) ==
    /\ Len(recent_events) < MaxDeepEvents
    /\ LET r == allocate_process(process_id, size, method)
       IN  /\ Install(r)
           /\ call' = Returned("allocate", process_id, size, method, r.ret)
    /\ UNCHANGED <<config, gui, threads>>

DeepDeallocate(process_id) ==
    /\ process_id \in DOMAIN allocated_processes
           => Len(recent_events) < MaxDeepEvents
    /\ LET r == deallocate_process(process_id)
       IN  /\ Install(r)
           /\ call' = Returned("deallocate", process_id, 0, "none", r.ret)
    /\ UNCHANGED <<config, gui, threads>>

NextDeep ==
    \/ \E p \in PidInputs, s \in PositiveSizes, m \in Methods : DeepAllocate(p, s, m)
    \/ \E p \in PidInputs, s \in NonPositiveSizes, m \in Methods : DeepAllocate(p, s, m)
    \/ \E p \in PidInputs : DeepDeallocate(p)

SpecDeep == Init /\ [][NextDeep]_vars

\* the free blocks of at least this size
LargeEnough(size) ==
    {i \in 1..Len(memory) :
        memory[i].process_id = NoProcess /\ memory[i].size >= size}

\* C20: a segmentation allocation fails if and only if no free block is as
\* large as the request, whatever the total of free memory; otherwise it
\* claims the request at the start of the lowest-address free block that is
\* large enough, splitting it when it is larger, and leaves every other
\* block as it was.
SegmentationIsFirstFit ==
    [][ (AllocateStep /\ call'.method = "segmentation") =>
            LET size == call'.size
                fit == LargeEnough(size)
            IN  /\ call'.ret <=> fit # {}
                /\ call'.ret =>
                      LET i == CHOOSE j \in fit : \A k \in fit : j <= k
                          info == allocated_processes'[call'.process_id]
                      IN  /\ \A k \in fit : memory[i].start <= memory[k].start
                          /\ info.start = memory[i].start
                          /\ info.end = memory[i].start + size - 1
                          /\ memory'[i] = [start |-> memory[i].start,
                                           end |-> memory[i].start + size - 1,
                                           size |-> size,
                                           process_id |-> call'.process_id]
                          /\ \A k \in 1..(i - 1) : memory'[k] = memory[k]
                          /\ IF memory[i].size = size
                             THEN /\ Len(memory') = Len(memory)
                                  /\ \A k \in (i + 1)..Len(memory) :
                                        memory'[k] = memory[k]
                             ELSE /\ Len(memory') = Len(memory) + 1
                                  /\ memory'[i + 1] =
                                         [start |-> memory[i].start + size,
                                          end |-> memory[i].end,
                                          size |-> memory[i].size - size,
                                          process_id |-> NoProcess]
                                  /\ \A k \in (i + 1)..Len(memory) :
                                        memory'[k + 1] = memory[k] ]_vars

\* ------------------------------------------------- frames of a segment
\* the frames whose address range lies within [start, end]
FramesWithin(start, end) ==
    {k \in 1..Len(page_table) :
        page_table[k].start_address >= start /\ page_table[k].end_address <= end}

\* the frames whose owner a step changed
FramesChanged ==
    {k \in 1..Len(page_table) :
        page_table'[k].process_id # page_table[k].process_id}

\* C21: a successful segmentation allocation gives the new owner to exactly
\* the frames whose address range falls within [start, end] of the claimed
\* block and changes the owner of no other frame; it never overwrites a
\* frame that another allocated process owns.
SegmentationMarksOwnFrames ==
    [][ (AllocateStep /\ call'.method = "segmentation" /\ call'.ret) =>
            LET process_id == call'.process_id
                info == allocated_processes'[process_id]
                within == FramesWithin(info.start, info.end)
            IN  /\ \A k \in within : page_table'[k].process_id = process_id
                /\ FramesChanged \subseteq within
                /\ \A k \in 1..Len(page_table) :
                      (/\ page_table[k].process_id \in Registered
                       /\ page_table[k].process_id # process_id)
                          => page_table'[k] = page_table[k] ]_vars

\* ---------------------------------------------- what a deallocation frees
\* the addresses the block list gives to process_id
BlockAddresses(mem, process_id) ==
    UNION {mem[i].start..mem[i].end : i \in OwnedAt(mem, process_id)}

\* C22: after a successful deallocate_process(pid) no frame and no block has
\* owner pid, pid is not in the registry, and the frames and blocks of the
\* other allocated processes are owned as before, for both strategies.
DeallocationFreesOnlyItsProcess ==
    [][ (DeallocateStep /\ call'.ret) =>
            LET process_id == call'.process_id
                others == Registered \ {process_id}
            IN  /\ \A k \in 1..Len(page_table') :
                      page_table'[k].process_id # process_id
                /\ OwnedAt(memory', process_id) = {}
                /\ process_id \notin DOMAIN allocated_processes'
                /\ \A k \in 1..Len(page_table) :
                      page_table[k].process_id \in others
                          => page_table'[k] = page_table[k]
                /\ \A q \in others :
                      BlockAddresses(memory', q) = BlockAddresses(memory, q) ]_vars

\* ------------------------------------------------------ merging on free
SegmentationDeallocateStep ==
    /\ DeallocateStep
    /\ call'.ret
    /\ allocated_processes[call'.process_id].method = "segmentation"

NoAdjacentFree(mem) ==
    \A i \in 1..(Len(mem) - 1) : ~(IsFree(mem[i]) /\ IsFree(mem[i + 1]))

\* the blocks of mem that stay owned when process_id is deallocated
StillOwned(mem, process_id) ==
    LET Kept(block) == block.process_id \notin {NoProcess, process_id}
    IN  SelectSeq(mem, Kept)

\* block spans the blocks i..j of mem, none of them owned by another process
SpansRun(block, mem, i, j, process_id) ==
    /\ block.start = mem[i].start
    /\ block.end = mem[j].end
    /\ block.size = SumSeq([k \in 1..(j - i + 1) |-> mem[i + k - 1].size])
    /\ \A k \in i..j : mem[k].process_id \in {NoProcess, process_id}

\* C23: a segmentation deallocation merges the freed range with every
\* adjacent free block, so that no two consecutive free blocks remain, and
\* no merge crosses or alters a block that is still owned.
MergeJoinsAllAdjacentFreeBlocks ==
    [][ SegmentationDeallocateStep =>
            LET process_id == call'.process_id
            IN  /\ NoAdjacentFree(memory')
                /\ StillOwned(memory', process_id) = StillOwned(memory, process_id)
                /\ \A n \in 1..Len(memory') :
                      IsFree(memory'[n]) =>
                          \E i \in 1..Len(memory), j \in 1..Len(memory) :
                              /\ i <= j
                              /\ SpansRun(memory'[n], memory, i, j, process_id) ]_vars

\* C23 happens: the processes 1 and 2 took a segment each, leaving free
\* memory behind them; 1 was deallocated and then 2, whose block had a free
\* neighbour on both sides, and one free block is left
MergeBothSidesWitness ==
    /\ Len(recent_events) = 4
    /\ recent_events[1].details.text = "Allocated segment of size at address"
    /\ recent_events[2].details.text = "Allocated segment of size at address"
    /\ recent_events[1].details.a + recent_events[2].details.a < memory_size
    /\ recent_events[1].details.a > 0
    /\ recent_events[2].details.a > 0
    /\ recent_events[1].process_id = 1
    /\ recent_events[2].process_id = 2
    /\ recent_events[3] = Event(1, "Deallocation",
                              Details("Process removed from memory", 0, 0))
    /\ recent_events[4] = Event(2, "Deallocation",
                              Details("Process removed from memory", 0, 0))
    /\ memory = InitMemory(memory_size)

\* ---------------------------------------------------- splitting a block
\* the block list with block i claimed whole by process_id
ClaimedWhole(mem, i, process_id) ==
    [k \in 1..Len(mem) |->
        IF k = i THEN [mem[i] EXCEPT !.process_id = process_id] ELSE mem[k]]

\* the block list with block i replaced by an owned prefix of this size and
\* a free suffix of the rest
SplitInTwo(mem, i, process_id, size) ==
    SubSeq(mem, 1, i - 1)
        \o << [start |-> mem[i].start, end |-> mem[i].start + size - 1,
               size |-> size, process_id |-> process_id],
              [start |-> mem[i].start + size, end |-> mem[i].end,
               size |-> mem[i].size - size, process_id |-> NoProcess] >>
        \o SubSeq(mem, i + 1, Len(mem))

\* C24: a segmentation allocation of size s into a free block of size b > s
\* replaces the block by an owned prefix [start, start + s - 1] of size s and
\* a free suffix of size b - s that keeps the end address; with s = b the
\* block is claimed whole and the number of blocks stays; all other blocks
\* are unchanged.
SegmentationSplitsBlock ==
    [][ (AllocateStep /\ call'.method = "segmentation" /\ call'.ret) =>
            \E i \in 1..Len(memory) :
                /\ IsFree(memory[i])
                /\ memory[i].size >= call'.size
                /\ memory[i].start = allocated_processes'[call'.process_id].start
                /\ IF memory[i].size > call'.size
                   THEN memory' = SplitInTwo(memory, i, call'.process_id, call'.size)
                   ELSE memory' = ClaimedWhole(memory, i, call'.process_id) ]_vars

\* C24 happens: the last call was a segmentation allocation that left its
\* block followed by the free rest of the block it was cut from
SegmentationSplitWitness ==
    /\ call.op = "allocate" /\ call.method = "segmentation" /\ call.ret
    /\ call.size > 0
    /\ \E i \in 1..(Len(memory) - 1) :
          /\ memory[i].process_id = call.process_id
          /\ memory[i].size = call.size
          /\ memory[i].start = allocated_processes[call.process_id].start
          /\ IsFree(memory[i + 1])
          /\ memory[i + 1].start = memory[i].end + 1
    /\ Len(recent_events) = 3

\* ---------------------------------------------------------- termination
\* The threads of SpecThreads with a scheduler that lets every thread that
\* is inside deallocate_process take its next step: the engine holds no
\* lock and waits for nothing, so a thread's next statement can always run.
SpecThreadsFair ==
    /\ SpecThreads
    /\ \A t \in Threads : WF_vars(DeallocateSteps(t))

\* C25: every call of the engine terminates without waiting on another
\* operation: a thread inside deallocate_process, in its frame loop, its
\* block scan or the merge loop, leaves the call, whatever the other thread
\* does meanwhile.
EveryCallTerminates ==
    \A t \in Threads : (pc[t] \in InCall) ~> (pc[t] \notin InCall)

\* C25 happens: a deallocation of a segment has gone through the merge loop,
\* past a pair of blocks it could not merge, and returned
MergeLoopFinishedWitness ==
    \E t \in Threads :
        /\ pc[t] = "ret"
        /\ outcome[t] = "True"
        /\ local[t].process_info.method = "segmentation"
        /\ local[t].k >= 1

\* --------------------------------------------------- recorded locations
\* the addresses of the frame with this frame_id
FrameAddresses(frame_id) ==
    UNION {page_table[k].start_address..page_table[k].end_address :
              k \in {j \in 1..Len(page_table) : page_table[j].frame_id = frame_id}}

\* the addresses the registry records for a process: its frames under
\* paging, [start, end] under segmentation
RecordedAddresses(process_id) ==
    LET info == allocated_processes[process_id]
    IN  IF info.method = "paging"
        THEN UNION {FrameAddresses(info.frames[k]) : k \in 1..Len(info.frames)}
        ELSE info.start..info.end

\* C26: no two allocated processes own overlapping addresses: the address
\* ranges the registry records for two distinct pids are disjoint, whatever
\* mix of paging and segmentation calls came before.
NoOverlappingOwnership ==
    \A p \in Registered, q \in Registered :
        p # q => RecordedAddresses(p) \cap RecordedAddresses(q) = {}

\* ----------------------------------------------------------------- leaks
\* C27: memory is never leaked: when the registry is empty every frame is
\* free and the block list is one free block over [0, memory_size - 1];
\* every owned frame or block belongs to a pid that is still registered.
NoMemoryLeak ==
    /\ Registered = {} =>
          /\ AllFramesFree
          /\ memory = InitMemory(memory_size)
    /\ \A k \in 1..Len(page_table) :
          page_table[k].process_id \in Registered \cup {NoProcess}
    /\ \A i \in 1..Len(memory) :
          memory[i].process_id \in Registered \cup {NoProcess}

\* =====================================================================
\* The handlers of the GUI over a whole session: start and stop, the
\* pending queue, generated and random process ids, reset, and the timers
\* that outlive a reset.  Tk runs one handler of the main thread at a time;
\* a timer fires on its own thread, between any two steps of the main
\* thread.  Every call of the engine is one step here.
MaxGuiEvents == 2
MaxPending == 1

GuiPids == 1..MaxPid

\* the sizes entered: one that always fits a free memory, and the whole memory
GuiSizes == {1, memory_size}

PendingPids == {pending_processes[i].process_id : i \in 1..Len(pending_processes)}

\* _generate_unique_process_id (gui.py 334-344), counting from n
RECURSIVE generate_unique_process_id(_)
generate_unique_process_id(n) ==
    IF n \notin allocated_process_ids /\ n \notin PendingPids
    THEN n
    ELSE generate_unique_process_id(n + 1)

\* gui.py 308-316: the simulation runs, the process is allocated at once
StartNow(process_id, size, method) ==
    LET r == allocate_process(process_id, size, method)
    IN  /\ Install(r)
        /\ call' = Returned("allocate", process_id, size, method, r.ret)
        /\ allocated_process_ids' =
               IF r.ret THEN allocated_process_ids \cup {process_id}
               ELSE allocated_process_ids
        /\ timers' = IF r.ret THEN timers \cup {process_id} ELSE timers
        /\ UNCHANGED pending_processes

\* gui.py 319-329: the simulation is stopped, the process is queued
Enqueue(process_id, size, method) ==
    /\ process_id \in PendingPids \/ Len(pending_processes) < MaxPending
    /\ pending_processes' =
           IF process_id \in PendingPids
           THEN pending_processes
           ELSE Append(pending_processes,
                    [process_id |-> process_id, size |-> size, method |-> method])
    /\ UNCHANGED <<engine, recent_events, call, allocated_process_ids, timers>>

\* _add_process with a process id entered (gui.py 286-332)
AddEnteredProcess(process_id, size, method) ==
    /\ At("main", "idle")
    /\ size > 0
    /\ process_id \notin allocated_process_ids
    /\ Len(recent_events) < MaxGuiEvents
    /\ IF simulation_running
       THEN StartNow(process_id, size, method)
       ELSE Enqueue(process_id, size, method)
    /\ UNCHANGED <<config, simulation_running, next_pid, stale_timers, threads>>

\* _add_process with the process id left empty
AddGeneratedProcess(size, method) ==
    /\ At("main", "idle")
    /\ size > 0
    /\ Len(recent_events) < MaxGuiEvents
    /\ LET process_id == generate_unique_process_id(next_pid)
       IN  /\ process_id <= MaxPid
           /\ next_pid' = process_id + 1
           /\ IF simulation_running
              THEN StartNow(process_id, size, method)
              ELSE Enqueue(process_id, size, method)
    /\ UNCHANGED <<config, simulation_running, stale_timers, threads>>

\* _add_random_process (gui.py 346-359): _schedule_auto_removal is called
\* without a lifetime and raises TypeError after a successful allocation
AddRandomProcess(size, method) ==
    /\ At("main", "idle")
    /\ simulation_running
    /\ next_pid <= MaxPid
    /\ Len(recent_events) < MaxGuiEvents
    /\ LET process_id == next_pid
           r == allocate_process(process_id, size, method)
       IN  /\ next_pid' = next_pid + 1
           /\ Install(r)
           /\ call' = Returned("allocate", process_id, size, method, r.ret)
           /\ outcome' = [outcome EXCEPT
                  !["main"] = IF r.ret THEN "TypeError" ELSE "False"]
    /\ UNCHANGED <<config, simulation_running, allocated_process_ids, timers,
                   pending_processes, stale_timers, pc, local, raced, seen>>

\* _toggle_simulation (gui.py 249-273); with processes pending the handler
\* goes on to its loop over the queue
ToggleSimulation ==
    /\ At("main", "idle")
    /\ IF simulation_running
       THEN /\ simulation_running' = FALSE
            /\ UNCHANGED <<pc, local>>
       ELSE /\ simulation_running' = TRUE
            /\ IF pending_processes = <<>>
               THEN UNCHANGED <<pc, local>>
               ELSE /\ Goto("main", "start_pending")
                    /\ SetLocal("main", [NoLocal EXCEPT !.k = 1])
    /\ UNCHANGED <<config, engine, recent_events, call, allocated_process_ids,
                   timers, session, outcome, raced, seen>>

\* gui.py 261-268: one turn of the loop over the pending processes, and
\* the clear() after the last one
StartPending ==
    /\ At("main", "start_pending")
    /\ LET k == local["main"].k
           pending == pending_processes[k]
           r == allocate_process(pending.process_id, pending.size, pending.method)
       IN  /\ Install(r)
           /\ call' = Returned("allocate", pending.process_id, pending.size,
                               pending.method, r.ret)
           /\ timers' = IF r.ret THEN timers \cup {pending.process_id} ELSE timers
           /\ IF k < Len(pending_processes)
              THEN /\ SetLocal("main", [local["main"] EXCEPT !.k = k + 1])
                   /\ UNCHANGED <<pc, pending_processes>>
              ELSE /\ SetLocal("main", NoLocal)
                   /\ Goto("main", "idle")
                   /\ pending_processes' = <<>>
    /\ UNCHANGED <<config, simulation_running, allocated_process_ids, next_pid,
                   stale_timers, outcome, raced, seen>>

\* the handler after deallocate_process returned (gui.py 367-374, 413-419)
RemoveNow(process_id) ==
    LET r == deallocate_process(process_id)
    IN  /\ Install(r)
        /\ call' = Returned("deallocate", process_id, 0, "none", r.ret)
        /\ allocated_process_ids' =
               IF r.ret THEN allocated_process_ids \ {process_id}
               ELSE allocated_process_ids

\* _remove_process (gui.py 361-376)
RemoveEnteredProcess(process_id) ==
    /\ At("main", "idle")
    /\ simulation_running
    /\ process_id \in DOMAIN allocated_processes
           => Len(recent_events) < MaxGuiEvents + 1
    /\ RemoveNow(process_id)
    /\ UNCHANGED <<config, simulation_running, timers, session, threads>>

\* _auto_remove_process (gui.py 410-419) of a timer started in this engine
TimerFires(process_id) ==
    /\ process_id \in timers
    /\ timers' = timers \ {process_id}
    /\ IF simulation_running
       THEN RemoveNow(process_id)
       ELSE UNCHANGED <<engine, recent_events, call, allocated_process_ids>>
    /\ UNCHANGED <<config, simulation_running, session, threads>>

\* _auto_remove_process of a timer started before the last reset: the
\* Timer holds the process id only, and self.memory_manager is the new engine
StaleTimerFires(process_id) ==
    /\ process_id \in stale_timers
    /\ stale_timers' = stale_timers \ {process_id}
    /\ IF simulation_running
       THEN RemoveNow(process_id)
       ELSE UNCHANGED <<engine, recent_events, call, allocated_process_ids>>
    /\ UNCHANGED <<config, simulation_running, timers, pending_processes,
                   next_pid, threads>>

\* _reset_simulation (gui.py 395-402): no timer is cancelled and the
\* pending queue is kept
ResetSimulation ==
    /\ At("main", "idle")
    /\ simulation_running' = FALSE
    /\ memory' = InitMemory(memory_size)
    /\ page_table' = InitPageTable(memory_size, page_size)
    /\ allocated_processes' = <<>>
    /\ recent_events' = <<>>
    /\ stats' = InitStats(memory_size)
    /\ call' = NoCall
    /\ next_pid' = 1
    /\ allocated_process_ids' = {}
    /\ stale_timers' = stale_timers \cup timers
    /\ timers' = {}
    /\ UNCHANGED <<config, pending_processes, threads>>

NextGui ==
    \/ \E p \in GuiPids, s \in GuiSizes, m \in Methods :
          AddEnteredProcess(p, s, m)
    \/ \E s \in GuiSizes, m \in Methods : AddGeneratedProcess(s, m)
    \/ \E s \in GuiSizes, m \in Methods : AddRandomProcess(s, m)
    \/ ToggleSimulation
    \/ StartPending
    \/ \E p \in GuiPids : RemoveEnteredProcess(p)
    \/ \E p \in timers : TimerFires(p)
    \/ \E p \in stale_timers : StaleTimerFires(p)
    \/ ResetSimulation

SpecGui == Init /\ [][NextGui]_vars

\* a timer started before the last reset has fired
StaleTimerFired ==
    /\ stale_timers' # stale_timers
    /\ stale_timers' \subseteq stale_timers

\* C28: a scheduled automatic removal only deallocates the allocation it
\* was scheduled for: a timer started before a reset never deallocates a
\* process allocated under the same pid in the new engine.
StaleTimerRemovesNothing ==
    [][ StaleTimerFired => allocated_processes' = allocated_processes ]_vars

\* C29: the GUI's allocated_process_ids equals the set of pids allocated in
\* the engine whenever no handler of the main thread is running, whichever
\* path allocated or deallocated them.
GuiIdsMatchRegistry ==
    At("main", "idle") => allocated_process_ids = Registered

\* ------------------------------------------------------- block extents
\* C30: every block of the block list has a consistent positive extent:
\* size = end - start + 1 and size >= 1, whether it was rebuilt from the
\* frame table or produced by a split or a merge.
BlocksHavePositiveExtent ==
    \A i \in 1..Len(memory) :
        /\ memory[i].size = memory[i].end - memory[i].start + 1
        /\ memory[i].size >= 1
====
